---- MODULE Spec2Model ----
(***************************************************************************)
(* PyShield (pyshield.py): batch compilation of a Python project tree with *)
(* Cython.  The model covers the module selection (is_valid_module), the   *)
(* scan and package inference (collect_extensions_and_packages), the       *)
(* per-unit compilation loop (safe_cythonize), the native build            *)
(* (compile_with_cython), the copy stage and the process exit of main.     *)
(*                                                                         *)
(* A Python str is a sequence of one-character strings, so that            *)
(* startswith, endswith, slicing, Path.suffix, "/".join, ".".join and      *)
(* sorted() are computed and not assumed.  A Path is the sequence of its   *)
(* parts; every part is a str.                                             *)
(***************************************************************************)
EXTENDS Integers, Sequences, FiniteSets, TLC

\* ------------------------------------------------------------------------
\* Bounds of the model
\* ------------------------------------------------------------------------
MaxFiles == 2

MaxPyRules == 1

MaxDirRules == 1

\* ------------------------------------------------------------------------
\* Characters and str helpers
\* ------------------------------------------------------------------------
\* code point of the characters that occur in the model (ASCII)
ord(c) ==
    CASE c = "*" -> 42 [] c = "." -> 46 [] c = "/" -> 47
      [] c = "P" -> 80 [] c = "Y" -> 89 [] c = "_" -> 95
      [] c = "a" -> 97 [] c = "b" -> 98 [] c = "c" -> 99 [] c = "d" -> 100
      [] c = "e" -> 101 [] c = "h" -> 104 [] c = "i" -> 105 [] c = "j" -> 106
      [] c = "l" -> 108 [] c = "m" -> 109 [] c = "n" -> 110 [] c = "o" -> 111
      [] c = "p" -> 112 [] c = "q" -> 113 [] c = "r" -> 114 [] c = "s" -> 115
      [] c = "t" -> 116 [] c = "u" -> 117 [] c = "v" -> 118 [] c = "w" -> 119
      [] c = "x" -> 120 [] c = "y" -> 121

\* str.lower() on one character
lowerChar(c) == CASE c = "P" -> "p" [] c = "Y" -> "y" [] OTHER -> c

\* str.lower()
lower(s) == [i \in 1..Len(s) |-> lowerChar(s[i])]

\* s[k:] with a 0-based k, as in pattern[1:]
sliceFrom(s, k) == SubSeq(s, k + 1, Len(s))

\* str.startswith(p)
startswith(s, p) == Len(p) <= Len(s) /\ SubSeq(s, 1, Len(p)) = p

\* str.endswith(p)
endswith(s, p) == Len(p) <= Len(s) /\ SubSeq(s, Len(s) - Len(p) + 1, Len(s)) = p

\* c in s
hasChar(s, c) == \E i \in 1..Len(s) : s[i] = c

\* str.rfind(c), 0-based, -1 when absent
rfind(s, c) ==
    IF hasChar(s, c)
    THEN (CHOOSE i \in 1..Len(s) : s[i] = c /\ \A j \in (i+1)..Len(s) : s[j] # c) - 1
    ELSE -1

\* str < str (code-point lexicographic order, used by sorted())
RECURSIVE strLess(_, _)
strLess(s, t) ==
    IF t = <<>> THEN FALSE
    ELSE IF s = <<>> THEN TRUE
    ELSE IF s[1] # t[1] THEN ord(s[1]) < ord(t[1])
    ELSE strLess(Tail(s), Tail(t))

\* sep.join(parts)
RECURSIVE join(_, _)
join(sep, parts) ==
    IF parts = <<>> THEN <<>>
    ELSE IF Len(parts) = 1 THEN parts[1]
    ELSE parts[1] \o sep \o join(sep, Tail(parts))

\* fnmatch of one name against a pattern in which "*" matches any run of
\* characters (the matching Path.rglob applies to the last path component)
RECURSIVE fnmatch(_, _)
fnmatch(name, pat) ==
    IF pat = <<>> THEN name = <<>>
    ELSE IF pat[1] = "*"
         THEN \E k \in 0..Len(name) : fnmatch(sliceFrom(name, k), Tail(pat))
         ELSE name # <<>> /\ name[1] = pat[1] /\ fnmatch(Tail(name), Tail(pat))

\* ------------------------------------------------------------------------
\* str literals
\* ------------------------------------------------------------------------
DOT_PY == <<".", "p", "y">>

DOT_PYX == <<".", "p", "y", "x">>

INIT_PY == <<"_", "_", "i", "n", "i", "t", "_", "_", ".", "p", "y">>

SETUP_PY == <<"s", "e", "t", "u", "p", ".", "p", "y">>

\* EXCLUDE_DIRS
EXCLUDE_DIRS ==
    { <<".", "i", "d", "e", "a">>,
      <<"v", "e", "n", "v">>,
      <<".", "v", "e", "n", "v">>,
      <<".", "c", "a", "c", "h", "e">>,
      <<"b", "u", "i", "l", "d">>,
      <<"_", "_", "p", "y", "c", "a", "c", "h", "e", "_", "_">> }

\* EXCLUDE_FILES
EXCLUDE_FILES == { SETUP_PY }

\* EXCLUDE_PREFIXES
EXCLUDE_PREFIXES == { <<".">>, <<"_">> }

\* ------------------------------------------------------------------------
\* pathlib helpers (a Path is the sequence of its parts)
\* ------------------------------------------------------------------------
\* Path.name
name(path) == path[Len(path)]

\* Path.parent
parent(path) == SubSeq(path, 1, Len(path) - 1)

\* PurePath.suffix of a file name: the text from the last dot, unless the
\* dot is the first or the last character
suffixOf(n) ==
    LET i == rfind(n, ".")
    IN  IF 0 < i /\ i < Len(n) - 1 THEN sliceFrom(n, i) ELSE <<>>

\* Path.suffix
suffix(path) == suffixOf(name(path))

\* Path.with_suffix("")
with_suffix_empty(path) ==
    LET n == name(path)
        stem == SubSeq(n, 1, Len(n) - Len(suffixOf(n)))
    IN  parent(path) \o <<stem>>

\* root is a prefix of path (Path.relative_to does not raise ValueError)
is_relative_to(path, root) ==
    Len(root) <= Len(path) /\ SubSeq(path, 1, Len(root)) = root

\* Path.relative_to(root).parts
relative_to(path, root) == SubSeq(path, Len(root) + 1, Len(path))

\* str(path): the parts joined with "/", an absolute path keeps its anchor "/"
pathStr(path) ==
    IF path # <<>> /\ path[1] = <<"/">>
    THEN <<"/">> \o join(<<"/">>, Tail(path))
    ELSE join(<<"/">>, path)

\* str.split("/") without the empty pieces
RECURSIVE splitSlash(_, _)
splitSlash(s, cur) ==
    IF s = <<>> THEN (IF cur = <<>> THEN <<>> ELSE <<cur>>)
    ELSE IF s[1] = "/"
         THEN (IF cur = <<>> THEN <<>> ELSE <<cur>>) \o splitSlash(Tail(s), <<>>)
         ELSE splitSlash(Tail(s), Append(cur, s[1]))

\* Path(s).parts
pathOf(s) ==
    IF s # <<>> /\ s[1] = "/"
    THEN << <<"/">> >> \o splitSlash(s, <<>>)
    ELSE splitSlash(s, <<>>)

\* Path.resolve() in the working directory wd (no symbolic links)
resolve(path, wd) == IF path # <<>> /\ path[1] = <<"/">> THEN path ELSE wd \o path

\* ------------------------------------------------------------------------
\* Names of the files, directories and rule tokens of the bounded universe
\* ------------------------------------------------------------------------
A_PY == <<"a", ".", "p", "y">>

B_PY == <<"b", ".", "p", "y">>

H_PY == <<"_", "h", ".", "p", "y">>

R_TXT == <<"r", ".", "t", "x", "t">>

DIR_P == <<"p">>

DIR_Q == <<"q">>

DIR_T == <<"t">>

DIR_BUILD == <<"b", "u", "i", "l", "d">>

DIR_W == <<"w">>

DIR_PROJ == <<"p", "r", "o", "j">>

\* candidate files, as paths relative to the project root
FileUniverse ==
    { <<A_PY>>, <<INIT_PY>>, <<DIR_P, INIT_PY>>, <<DIR_P, B_PY>>,
      <<DIR_P, DIR_Q, INIT_PY>>, <<SETUP_PY>>, <<H_PY>>, <<DIR_BUILD, A_PY>>,
      <<DIR_T, R_TXT>>, <<DIR_P, DIR_T, A_PY>> }

\* candidate --exclude-dir tokens
DirTokens == { DIR_T, DIR_P }

\* candidate --exclude-py tokens: exact paths, "*name.py", and wildcard
\* shapes the usage text calls illegal
TOK_A == A_PY

TOK_P_B == <<"p", "/", "b", ".", "p", "y">>

TOK_X == <<"x", ".", "p", "y">>

TOK_STAR_B == <<"*", "b", ".", "p", "y">>

TOK_DIR_STAR == <<"p", "/", "*", ".", "p", "y">>

TOK_STAR_SLASH == <<"*", "/", "b", ".", "p", "y">>

TOK_TWO_STAR == <<"*", "*", "b", ".", "p", "y">>

PyTokens ==
    { TOK_A, TOK_P_B, TOK_X, TOK_STAR_B, TOK_DIR_STAR, TOK_STAR_SLASH, TOK_TWO_STAR }

\* where the project lives: the working directory and the project path as
\* it is typed on the command line
Locations ==
    { [cwd |-> << <<"/">>, DIR_W >>, arg |-> << <<"/">>, DIR_W, DIR_PROJ >>],
      [cwd |-> << <<"/">>, DIR_BUILD >>, arg |-> <<DIR_PROJ>>],
      [cwd |-> << <<"/">>, DIR_W >>, arg |-> << <<"/">>, DIR_BUILD, DIR_PROJ >>] }

\* token lists without repetition over a set, up to a length, with the
\* tokens in str order: every reader of a token list uses it as a set or
\* iterates it into a set, so the order of the tokens has no effect
SeqsUpTo(S, n) ==
    UNION { { q \in [1..k -> S] : \A i \in 1..(k - 1) : strLess(q[i], q[i + 1]) } : k \in 0..n }

\* the orderings of a finite set
Orderings(S) ==
    { q \in [1..Cardinality(S) -> S] : \A i, j \in 1..Cardinality(S) : i # j => q[i] # q[j] }

\* ------------------------------------------------------------------------
\* is_valid_module
\* ------------------------------------------------------------------------
\* variant: the exact rule is compared with the file name
is_valid_module_by_name(file_path, exclude_dirs_set, exclude_py_set, root_path) ==
    IF suffix(file_path) # DOT_PY THEN FALSE
    ELSE IF name(file_path) \in EXCLUDE_FILES THEN FALSE
    ELSE IF (\E p \in EXCLUDE_PREFIXES : startswith(name(file_path), p))
            /\ name(file_path) # INIT_PY THEN FALSE
    ELSE IF \E i \in 1..Len(file_path) : file_path[i] \in exclude_dirs_set THEN FALSE
    ELSE IF ~is_relative_to(file_path, root_path) THEN FALSE
    ELSE IF name(file_path) \in exclude_py_set THEN FALSE
    ELSE IF \E pattern \in exclude_py_set :
               /\ ~(~startswith(pattern, <<"*">>) \/ ~endswith(pattern, DOT_PY))
               /\ ~(Len(pattern) <= 2 \/ hasChar(sliceFrom(pattern, 1), "/"))
               /\ name(file_path) = sliceFrom(pattern, 1)
         THEN FALSE
    ELSE TRUE

is_valid_module(file_path, exclude_dirs_set, exclude_py_set, root_path) ==
    IF suffix(file_path) # DOT_PY THEN FALSE
    ELSE IF name(file_path) \in EXCLUDE_FILES THEN FALSE
    ELSE IF (\E p \in EXCLUDE_PREFIXES : startswith(name(file_path), p))
            /\ name(file_path) # INIT_PY THEN FALSE
    ELSE IF \E i \in 1..Len(file_path) : file_path[i] \in exclude_dirs_set THEN FALSE
    ELSE IF ~is_relative_to(file_path, root_path) THEN FALSE
    ELSE IF join(<<"/">>, relative_to(file_path, root_path)) \in exclude_py_set THEN FALSE
    ELSE IF \E pattern \in exclude_py_set :
               /\ ~(~startswith(pattern, <<"*">>) \/ ~endswith(pattern, DOT_PY))
               /\ ~(Len(pattern) <= 2 \/ hasChar(sliceFrom(pattern, 1), "/"))
               /\ name(file_path) = sliceFrom(pattern, 1)
         THEN FALSE
    ELSE TRUE

\* ------------------------------------------------------------------------
\* collect_extensions_and_packages
\* ------------------------------------------------------------------------
\* Extension(module_name, [str(py_file)])
Extension(module_name, source) == [name |-> module_name, source |-> source]

\* variant: the walk leaves the loop at the root before it looks there
RECURSIVE walkPackages_skip_root(_, _, _)
walkPackages_skip_root(par, root_path, files) ==
    LET pkg_name == join(<<".">>, relative_to(par, root_path))
        here == IF (par \o <<INIT_PY>>) \in files
                THEN { IF pkg_name = <<>> THEN <<".">> ELSE pkg_name }
                ELSE {}
    IN  IF par = root_path THEN {}
        ELSE here \cup walkPackages_skip_root(parent(par), root_path, files)

\* the loop "while True" over the parents of one file: the packages it adds
RECURSIVE walkPackages(_, _, _)
walkPackages(par, root_path, files) ==
    LET pkg_name == join(<<".">>, relative_to(par, root_path))
        here == IF (par \o <<INIT_PY>>) \in files
                THEN { IF pkg_name = <<>> THEN <<".">> ELSE pkg_name }
                ELSE {}
    IN  IF par = root_path THEN here
        ELSE here \cup walkPackages(parent(par), root_path, files)

\* sorted(packages)
RECURSIVE sorted(_)
sorted(S) ==
    IF S = {} THEN <<>>
    ELSE LET m == CHOOSE x \in S : \A y \in S \ {x} : strLess(x, y)
         IN  <<m>> \o sorted(S \ {m})

\* the loop over root_path.rglob("*.py"), files visited in the order given
RECURSIVE scanLoop(_, _, _, _, _, _)
scanLoop(order, files, root_path, exclude_dirs_set, exclude_py_set, acc) ==
    IF order = <<>> THEN acc
    ELSE LET py_file == Head(order)
             module_name == join(<<".">>, relative_to(with_suffix_empty(py_file), root_path))
             next ==
                 IF ~is_valid_module(py_file, exclude_dirs_set, exclude_py_set, root_path)
                 THEN acc
                 ELSE [extensions |->
                          IF name(py_file) # INIT_PY
                          THEN Append(acc.extensions, Extension(module_name, pathStr(py_file)))
                          ELSE acc.extensions,
                       packages |->
                          acc.packages \cup walkPackages(parent(py_file), root_path, files)]
         IN  scanLoop(Tail(order), files, root_path, exclude_dirs_set, exclude_py_set, next)

collect_extensions_and_packages(order, files, root_path, exclude_dirs_set, exclude_py_set) ==
    LET r == scanLoop(order, files, root_path, exclude_dirs_set, exclude_py_set,
                      [extensions |-> <<>>, packages |-> {}])
    IN  [extensions |-> r.extensions, packages |-> sorted(r.packages)]

\* ------------------------------------------------------------------------
\* State
\* ------------------------------------------------------------------------
VARIABLES
    cwd,                \* os.getcwd() of the process
    PROJECT_ROOT,       \* args.project_path, as typed
    is_dir,             \* project_path.is_dir()
    tree,               \* the files under the project root (relative paths)
    deleted,            \* files that disappeared after the scan
    exclude_dirs_list,  \* parsed --exclude-dir
    exclude_py_list,    \* parsed --exclude-py
    pc,                 \* position of main
    extensions,         \* result of the scan
    packages,           \* result of the scan
    idx,                \* safe_cythonize: units the loop has finished
    inflight,           \* safe_cythonize: the call of cythonize is running
    compiled,           \* safe_cythonize: compiled
    failed,             \* safe_cythonize: failed / failed_dict
    calls,              \* sources cythonize was called with, in order
    artifacts,          \* module names with a binary in BUILD_LIB_DIR
    copied,             \* relative paths copied verbatim into BUILD_LIB_DIR
    exit_code,          \* -1 while running
    interrupted         \* the KeyboardInterrupt branch of the entry was taken

vars == <<cwd, PROJECT_ROOT, is_dir, tree, deleted, exclude_dirs_list, exclude_py_list,
          pc, extensions, packages, idx, inflight, compiled, failed, calls,
          artifacts, copied, exit_code, interrupted>>

inputs == <<cwd, PROJECT_ROOT, is_dir, tree, exclude_dirs_list, exclude_py_list>>

\* diagnostics recorded in the failure map
MSG_MISSING == "source file does not exist"

MSG_COMPILE == "captured stderr or unknown compile error"

MSG_EXCEPTION == "captured stderr and Exception"

\* set(exclude_dirs_list) | EXCLUDE_DIRS
exclude_dirs_set == { exclude_dirs_list[i] : i \in 1..Len(exclude_dirs_list) } \cup EXCLUDE_DIRS

\* set(exclude_py_list)
exclude_py_set == { exclude_py_list[i] : i \in 1..Len(exclude_py_list) }

\* Path(PROJECT_ROOT).resolve()
root_resolved == resolve(PROJECT_ROOT, cwd)

\* relative paths of the files that exist now
present == tree \ deleted

\* dict assignment d[k] = v
dictPut(d, k, v) == [x \in DOMAIN d \cup {k} |-> IF x = k THEN v ELSE d[x]]

Init ==
    /\ \E loc \in Locations : cwd = loc.cwd /\ PROJECT_ROOT = loc.arg
    /\ is_dir \in BOOLEAN
    /\ tree \in { t \in SUBSET FileUniverse : Cardinality(t) <= MaxFiles }
    /\ (~is_dir => tree = {})
    /\ exclude_dirs_list \in SeqsUpTo(DirTokens, MaxDirRules)
    /\ exclude_py_list \in SeqsUpTo(PyTokens, MaxPyRules)
    /\ deleted = {}
    /\ pc = "start"
    /\ extensions = <<>>
    /\ packages = <<>>
    /\ idx = 0
    /\ inflight = FALSE
    /\ compiled = <<>>
    /\ failed = [x \in {} |-> ""]
    /\ calls = <<>>
    /\ artifacts = {}
    /\ copied = {}
    /\ exit_code = -1
    /\ interrupted = FALSE

\* ------------------------------------------------------------------------
\* main: path check and scan
\* ------------------------------------------------------------------------
\* the run state that an action leaves alone
compileState == <<idx, inflight, compiled, failed, calls>>

\* "if not project_path.is_dir(): sys.exit(1)"
InvalidPath ==
    /\ pc = "start"
    /\ ~is_dir
    /\ pc' = "exited"
    /\ exit_code' = 1
    /\ UNCHANGED <<inputs, deleted, extensions, packages, compileState, artifacts,
                   copied, interrupted>>

\* steps 4 and 5 of main: the build directories, then the scan; rglob yields
\* the files in an order the file system chooses
Scan ==
    /\ pc = "start"
    /\ is_dir
    /\ LET files == { root_resolved \o f : f \in present }
           found == { f \in files : fnmatch(name(f), <<"*">> \o DOT_PY) }
       IN  \E order \in Orderings(found) :
              LET r == collect_extensions_and_packages(
                           order, files, root_resolved, exclude_dirs_set, exclude_py_set)
              IN  /\ extensions' = r.extensions
                  /\ packages' = r.packages
    /\ pc' = "compile"
    /\ UNCHANGED <<inputs, deleted, compileState, artifacts, copied, exit_code, interrupted>>

\* ------------------------------------------------------------------------
\* compile_with_cython and safe_cythonize
\* ------------------------------------------------------------------------
\* "if not extensions: return [], {}"
NoExtensions ==
    /\ pc = "compile"
    /\ extensions = <<>>
    /\ pc' = "copy_non_python"
    /\ UNCHANGED <<inputs, deleted, extensions, packages, compileState, artifacts,
                   copied, exit_code, interrupted>>

\* entry of safe_cythonize
EnterCythonize ==
    /\ pc = "compile"
    /\ extensions # <<>>
    /\ pc' = "cythonize"
    /\ UNCHANGED <<inputs, deleted, extensions, packages, compileState, artifacts,
                   copied, exit_code, interrupted>>

\* variant: no check that the source exists before the call
safe_cythonize_dispatch_unchecked(ext, gone) ==
    LET src_file == ext.source
        rel == relative_to(pathOf(src_file), root_resolved)
    IN  /\ deleted' = IF gone THEN deleted \cup {rel} ELSE deleted
        /\ inflight' = TRUE
        /\ calls' = Append(calls, src_file)
        /\ UNCHANGED <<failed, idx, compiled>>

\* one turn of the loop up to the call of cythonize: the source may have
\* disappeared since the scan, then the unit fails without a call
safe_cythonize_dispatch(ext, gone) ==
    LET src_file == ext.source
        rel == relative_to(pathOf(src_file), root_resolved)
    IN  /\ deleted' = IF gone THEN deleted \cup {rel} ELSE deleted
        /\ IF rel \notin present \/ gone
           THEN /\ failed' = dictPut(failed, src_file, MSG_MISSING)
                /\ idx' = idx + 1
                /\ UNCHANGED <<inflight, calls>>
           ELSE /\ inflight' = TRUE
                /\ calls' = Append(calls, src_file)
                /\ UNCHANGED <<failed, idx>>
        /\ UNCHANGED compiled

Dispatch ==
    /\ pc = "cythonize"
    /\ ~inflight
    /\ idx < Len(extensions)
    /\ \E gone \in BOOLEAN : safe_cythonize_dispatch(extensions[idx + 1], gone)
    /\ UNCHANGED <<inputs, pc, extensions, packages, artifacts, copied, exit_code, interrupted>>

\* variant: an Exception of one unit ends the loop
safe_cythonize_finish_abort(ext, outcome) ==
    /\ compiled' = IF outcome = "result" THEN compiled \o <<ext>> ELSE compiled
    /\ failed' = CASE outcome = "result" -> failed
                   [] outcome = "empty" -> dictPut(failed, ext.source, MSG_COMPILE)
                   [] outcome = "exception" -> dictPut(failed, ext.source, MSG_EXCEPTION)
    /\ inflight' = FALSE
    /\ idx' = IF outcome = "exception" THEN Len(extensions) ELSE idx + 1
    /\ UNCHANGED calls

\* the call of cythonize ends: a result, a falsy result, or an Exception
safe_cythonize_finish(ext, outcome) ==
    /\ compiled' = IF outcome = "result" THEN compiled \o <<ext>> ELSE compiled
    /\ failed' = CASE outcome = "result" -> failed
                   [] outcome = "empty" -> dictPut(failed, ext.source, MSG_COMPILE)
                   [] outcome = "exception" -> dictPut(failed, ext.source, MSG_EXCEPTION)
    /\ inflight' = FALSE
    /\ idx' = idx + 1
    /\ UNCHANGED calls

Cythonized ==
    /\ pc = "cythonize"
    /\ inflight
    /\ \E outcome \in {"result", "empty", "exception"} :
          safe_cythonize_finish(extensions[idx + 1], outcome)
    /\ UNCHANGED <<inputs, deleted, pc, extensions, packages, artifacts, copied,
                   exit_code, interrupted>>

\* variant: a batch without any success ends the run
after_cythonize_abort(cythonized_exts) ==
    IF cythonized_exts = <<>> THEN "exited" ELSE "link"

\* safe_cythonize returns; "if not cythonized_exts: return [], failed_dict"
after_cythonize(cythonized_exts) ==
    IF cythonized_exts = <<>> THEN "copy_non_python" ELSE "link"

CythonizeReturn ==
    /\ pc = "cythonize"
    /\ ~inflight
    /\ idx = Len(extensions)
    /\ pc' = after_cythonize(compiled)
    /\ UNCHANGED <<inputs, deleted, extensions, packages, compileState, artifacts,
                   copied, exit_code, interrupted>>

\* setup(build_ext): it returns with every module built, or it raises an
\* Exception after building only some of them; both paths return to main
Link ==
    /\ pc = "link"
    /\ \E built \in SUBSET { compiled[i].name : i \in 1..Len(compiled) } :
          artifacts' = built
    /\ pc' = "copy_non_python"
    /\ UNCHANGED <<inputs, deleted, extensions, packages, compileState, copied,
                   exit_code, interrupted>>

\* ------------------------------------------------------------------------
\* The copy stage.  Each function is given the source path as main passes it
\* (PROJECT_ROOT, not resolved) and yields the relative paths it copies.
\* ------------------------------------------------------------------------
\* any(part in exclude_dirs_set for part in f.parts)
anyPartExcluded(path, dirs_set) == \E i \in 1..Len(path) : path[i] \in dirs_set

copy_non_python_files(source, files, dirs_set) ==
    { f \in files : /\ lower(suffix(f)) \notin {DOT_PY, DOT_PYX}
                    /\ ~anyPartExcluded(source \o f, dirs_set) }

\* variant: glob instead of rglob, only the markers of the top directory
copy_init_py_files_top(source, files, dirs_set) ==
    { f \in files : /\ Len(f) = 1
                    /\ fnmatch(name(f), INIT_PY)
                    /\ ~anyPartExcluded(source \o f, dirs_set) }

copy_init_py_files(source, files, dirs_set) ==
    { f \in files : /\ fnmatch(name(f), INIT_PY)
                    /\ ~anyPartExcluded(source \o f, dirs_set) }

\* shutil.copytree(source / name, dest / name) for every listed name that is
\* a directory
copy_excluded_directories(source, files, dirs_list) ==
    UNION { LET src_dir == pathOf(dirs_list[i])
            IN  { f \in files : Len(f) > Len(src_dir) /\ is_relative_to(f, src_dir) }
            : i \in 1..Len(dirs_list) }

\* the files one --exclude-py pattern matches in copy_excluded_python_files
matched_by_pattern(files, pattern) ==
    IF hasChar(pattern, "*")
    THEN IF \/ ~startswith(pattern, <<"*">>)
            \/ ~endswith(pattern, DOT_PY)
            \/ Len(pattern) < 3
            \/ hasChar(sliceFrom(pattern, 1), "/")
         THEN {}
         ELSE { f \in files : fnmatch(name(f), sliceFrom(pattern, 1)) }
    ELSE LET file_path == pathOf(pattern)
         IN  IF file_path \in files /\ suffix(file_path) = DOT_PY THEN {file_path} ELSE {}

copy_excluded_python_files(source, files, py_list) ==
    UNION { matched_by_pattern(files, py_list[i]) : i \in 1..Len(py_list) }

\* the patterns copy_excluded_python_files reports as skipped
invalid_patterns(files, py_list) ==
    { py_list[i] : i \in { j \in 1..Len(py_list) :
        LET pattern == py_list[j]
        IN  IF hasChar(pattern, "*")
            THEN \/ ~startswith(pattern, <<"*">>)
                 \/ ~endswith(pattern, DOT_PY)
                 \/ Len(pattern) < 3
                 \/ hasChar(sliceFrom(pattern, 1), "/")
            ELSE ~(pathOf(pattern) \in files /\ suffix(pathOf(pattern)) = DOT_PY) } }

copy_failed_py_files(failed_files, files, proj, wd) ==
    { relative_to(resolve(pathOf(src), wd), proj) :
        src \in { x \in failed_files :
                    /\ is_relative_to(resolve(pathOf(x), wd), proj)
                    /\ relative_to(resolve(pathOf(x), wd), proj) \in files } }

CopyNonPython ==
    /\ pc = "copy_non_python"
    /\ copied' = copied \cup copy_non_python_files(PROJECT_ROOT, present, exclude_dirs_set)
    /\ pc' = "copy_init"
    /\ UNCHANGED <<inputs, deleted, extensions, packages, compileState, artifacts,
                   exit_code, interrupted>>

CopyInit ==
    /\ pc = "copy_init"
    /\ copied' = copied \cup copy_init_py_files(PROJECT_ROOT, present, exclude_dirs_set)
    /\ pc' = "copy_excluded_dirs"
    /\ UNCHANGED <<inputs, deleted, extensions, packages, compileState, artifacts,
                   exit_code, interrupted>>

CopyExcludedDirs ==
    /\ pc = "copy_excluded_dirs"
    /\ copied' = copied \cup copy_excluded_directories(PROJECT_ROOT, present, exclude_dirs_list)
    /\ pc' = "copy_excluded_py"
    /\ UNCHANGED <<inputs, deleted, extensions, packages, compileState, artifacts,
                   exit_code, interrupted>>

CopyExcludedPy ==
    /\ pc = "copy_excluded_py"
    /\ copied' = copied \cup copy_excluded_python_files(PROJECT_ROOT, present, exclude_py_list)
    /\ pc' = "copy_failed"
    /\ UNCHANGED <<inputs, deleted, extensions, packages, compileState, artifacts,
                   exit_code, interrupted>>

CopyFailed ==
    /\ pc = "copy_failed"
    /\ copied' = copied \cup copy_failed_py_files(DOMAIN failed, present, root_resolved, cwd)
    /\ pc' = "report"
    /\ UNCHANGED <<inputs, deleted, extensions, packages, compileState, artifacts,
                   exit_code, interrupted>>

\* step 8 of main: the final report; main returns and the process exits 0
Report ==
    /\ pc = "report"
    /\ pc' = "done"
    /\ exit_code' = 0
    /\ UNCHANGED <<inputs, deleted, extensions, packages, compileState, artifacts,
                   copied, interrupted>>

\* KeyboardInterrupt: no handler below the entry catches it ("except
\* Exception" does not), so it unwinds main from wherever it is
Interrupt ==
    /\ pc \notin {"done", "exited"}
    /\ pc' = "exited"
    /\ exit_code' = 1
    /\ interrupted' = TRUE
    /\ UNCHANGED <<inputs, deleted, extensions, packages, compileState, artifacts, copied>>

Next ==
    \/ InvalidPath
    \/ Scan
    \/ NoExtensions
    \/ EnterCythonize
    \/ Dispatch
    \/ Cythonized
    \/ CythonizeReturn
    \/ Link
    \/ CopyNonPython
    \/ CopyInit
    \/ CopyExcludedDirs
    \/ CopyExcludedPy
    \/ CopyFailed
    \/ Report
    \/ Interrupt

Spec == Init /\ [][Next]_vars

\* ------------------------------------------------------------------------
\* Notions the properties are stated with
\* ------------------------------------------------------------------------
\* the elements of a sequence
Range(q) == { q[i] : i \in 1..Len(q) }

\* number of occurrences of x in a sequence
Count(q, x) == Cardinality({ i \in 1..Len(q) : q[i] = x })

\* a .py file the selection drops for what it is: the build script, or a
\* hidden or private file other than the package marker
StructurallyDropped(f) ==
    /\ suffix(f) = DOT_PY
    /\ \/ name(f) = SETUP_PY
       \/ /\ name(f)[1] \in {".", "_"}
          /\ name(f) # INIT_PY

\* dotted module name of a file of the project
ModuleName(f) == join(<<".">>, with_suffix_empty(f))

\* relative path of the source of a compile unit
UnitPath(ext) == relative_to(pathOf(ext.source), root_resolved)

\* main has left compile_with_cython
AfterCompile == pc \in {"copy_non_python", "copy_init", "copy_excluded_dirs",
                        "copy_excluded_py", "copy_failed", "report", "done"}

\* state of the i-th compile unit: Pending, Compiling, Succeeded or Failed
UnitState(i) ==
    IF i <= idx
    THEN (IF extensions[i].source \in DOMAIN failed THEN "Failed" ELSE "Succeeded")
    ELSE IF i = idx + 1 /\ inflight THEN "Compiling" ELSE "Pending"

\* ------------------------------------------------------------------------
\* C1
\* ------------------------------------------------------------------------
\* C1 (as claimed): after a full run every file of the project that is not
\* structurally dropped is in the output tree at its relative path, as a
\* compiled artifact or as a verbatim copy; this includes the files of
\* default-excluded directories and of user-excluded directories at any depth.
C1_Completeness ==
    pc = "done" =>
        \A f \in present :
            ~StructurallyDropped(f) => (f \in copied \/ ModuleName(f) \in artifacts)

\* ------------------------------------------------------------------------
\* C2
\* ------------------------------------------------------------------------
\* a file-exclusion token with a wildcard that is not "*" + non-empty
\* filename + ".py" free of further "*" and "/"
MalformedWildcard(tok) ==
    /\ hasChar(tok, "*")
    /\ ~ /\ tok[1] = "*"
         /\ Len(tok) > 4
         /\ SubSeq(tok, Len(tok) - 2, Len(tok)) = DOT_PY
         /\ \A i \in 2..Len(tok) : tok[i] \notin {"*", "/"}

\* C2 (as claimed): with a malformed wildcard among the file-exclusion
\* tokens the run is rejected with a non-zero exit before any scan,
\* compilation or copy; the pattern is never silently ignored.
C2_FailFast ==
    (\E tok \in exclude_py_set : MalformedWildcard(tok)) =>
        /\ pc \in {"start", "exited"}
        /\ extensions = <<>> /\ calls = <<>> /\ copied = {}
        /\ pc = "exited" => exit_code # 0

\* ------------------------------------------------------------------------
\* C3
\* ------------------------------------------------------------------------
\* C3: every unit the loop of safe_cythonize has finished is exactly once in
\* the success list and not in the failure map, or in the failure map and
\* not in the success list; the two hold nothing else; and when
\* safe_cythonize has returned the loop has finished every unit, whatever
\* the outcomes of the units before it.
C3_ExactlyOnce ==
    /\ \A i \in 1..idx :
          \/ Count(compiled, extensions[i]) = 1 /\ extensions[i].source \notin DOMAIN failed
          \/ Count(compiled, extensions[i]) = 0 /\ extensions[i].source \in DOMAIN failed
    /\ Len(compiled) + Cardinality(DOMAIN failed) = idx
    /\ (AfterCompile \/ pc = "link") => idx = Len(extensions)

\* safe_cythonize has returned after a unit raised an Exception, a unit
\* returned nothing and a later unit compiled
C3_Witness ==
    /\ pc = "link"
    /\ \E i, j \in 1..Len(extensions) :
          /\ i < j
          /\ extensions[i].source \in DOMAIN failed
          /\ failed[extensions[i].source] \in {MSG_EXCEPTION, MSG_COMPILE}
          /\ extensions[j] \in Range(compiled)

\* ------------------------------------------------------------------------
\* C4
\* ------------------------------------------------------------------------
\* C4 (as claimed): at the end of a run every compile unit whose source
\* still exists is in the output tree as its binary artifact or as a copy of
\* its .py source, and a unit absent from the failure map has an artifact.
C4_ArtifactOrSource ==
    pc = "done" =>
        \A i \in 1..Len(extensions) :
            LET ext == extensions[i]
            IN  /\ UnitPath(ext) \in present =>
                      (ext.name \in artifacts \/ UnitPath(ext) \in copied)
                /\ ext.source \notin DOMAIN failed => ext.name \in artifacts

\* ------------------------------------------------------------------------
\* C5
\* ------------------------------------------------------------------------
\* the steps of main itself: everything but the user's interrupt
MainStep ==
    \/ InvalidPath \/ Scan \/ NoExtensions \/ EnterCythonize \/ Dispatch
    \/ Cythonized \/ CythonizeReturn \/ Link \/ CopyNonPython \/ CopyInit
    \/ CopyExcludedDirs \/ CopyExcludedPy \/ CopyFailed \/ Report

\* position of main as a stage number
StageNo(p) ==
    CASE p = "start" -> 0 [] p = "compile" -> 1 [] p = "cythonize" -> 2
      [] p = "link" -> 3 [] p = "copy_non_python" -> 4 [] p = "copy_init" -> 5
      [] p = "copy_excluded_dirs" -> 6 [] p = "copy_excluded_py" -> 7
      [] p = "copy_failed" -> 8 [] p = "report" -> 9 [] p = "done" -> 10
      [] p = "exited" -> 11

\* the steps of compile_with_cython
CompileStep ==
    NoExtensions \/ EnterCythonize \/ Dispatch \/ Cythonized \/ CythonizeReturn \/ Link

\* in a run with a valid path and no interrupt: the loop of
\* compile_with_cython always has a next step, and the process has exited
\* only at the end of main, with code 0
C5_NoAbort ==
    (is_dir /\ ~interrupted) =>
        /\ pc # "exited"
        /\ pc \in {"compile", "cythonize", "link"} => ENABLED CompileStep
        /\ pc # "done" => exit_code = -1
        /\ pc = "done" => exit_code = 0

\* every step of main moves forward: the loop of safe_cythonize advances,
\* nothing before the copy stage jumps over its first function, and from
\* there no function of the copy stage is skipped
C5_Forward ==
    (is_dir /\ ~interrupted') =>
        /\ StageNo(pc) < 4 =>
              /\ StageNo(pc') \in StageNo(pc)..4
              /\ StageNo(pc') = StageNo(pc) =>
                    (idx' > idx \/ (idx' = idx /\ inflight' /\ ~inflight))
        /\ StageNo(pc) >= 4 => StageNo(pc') = StageNo(pc) + 1

C6_InterruptAtUnitBoundary ==
    (pc = "exited" /\ interrupted) =>
        /\ exit_code # 0
        /\ \A i \in 1..Len(extensions) : UnitState(i) # "Compiling"

\* ------------------------------------------------------------------------
\* C7
\* ------------------------------------------------------------------------
\* the ordered first-match policy for a file, given by its absolute path
classify(file_path) ==
    LET fname == file_path[Len(file_path)]
        rel == SubSeq(file_path, Len(root_resolved) + 1, Len(file_path))
    IN  IF suffixOf(fname) # DOT_PY THEN "Drop"
        ELSE IF fname = SETUP_PY THEN "Drop"
        ELSE IF fname[1] \in {".", "_"} /\ fname # INIT_PY THEN "Drop"
        ELSE IF Range(file_path) \cap (EXCLUDE_DIRS \cup Range(exclude_dirs_list)) # {}
             THEN "PreserveDir"
        ELSE IF \E tok \in Range(exclude_py_list) : tok = join(<<"/">>, rel)
             THEN "PreserveFile"
        ELSE IF \E tok \in Range(exclude_py_list) : tok = <<"*">> \o fname
             THEN "PreserveFile"
        ELSE "Compile"

\* absolute path of a file of the project, as the scan sees it
AbsPath(f) == root_resolved \o f

\* C7: once the scan has run, is_valid_module holds of a file exactly when
\* the first-match policy yields Compile, the compile units are exactly the
\* Compile files other than package markers, and no banned, hidden or
\* excluded-directory file is a compile unit, whatever the file rules are.
C7_ClassificationPrecedence ==
    pc = "compile" =>
        /\ \A f \in tree :
              is_valid_module(AbsPath(f), exclude_dirs_set, exclude_py_set, root_resolved)
                  <=> classify(AbsPath(f)) = "Compile"
        /\ { UnitPath(extensions[i]) : i \in 1..Len(extensions) }
              = { f \in tree : classify(AbsPath(f)) = "Compile" /\ name(f) # INIT_PY }
        /\ \A i \in 1..Len(extensions) :
              classify(pathOf(extensions[i].source)) \notin {"Drop", "PreserveDir"}

\* a scan that selected one file and left another to a file rule
C7_Witness ==
    /\ pc = "compile"
    /\ extensions # <<>>
    /\ \E f \in tree : classify(AbsPath(f)) = "PreserveFile"

\* ------------------------------------------------------------------------
\* C8
\* ------------------------------------------------------------------------
\* name under which the scan registers a directory of the project
PkgName(d) == IF d = <<>> THEN <<".">> ELSE join(<<".">>, d)

\* the file lies under a directory with an excluded name, on the path the
\* copy stage is given (the project path as typed, then the relative path)
UnderExcludedDir(f) ==
    \E i \in 1..(Len(PROJECT_ROOT \o f) - 1) :
        (PROJECT_ROOT \o f)[i] \in EXCLUDE_DIRS \cup Range(exclude_dirs_list)

\* C8: no __init__.py is a compile unit; an __init__.py that no directory
\* or file rule excludes is accepted by the scan (its directory is
\* registered as a package) although its name starts with "_"; and at the
\* end of the run every __init__.py not under an excluded directory has been
\* copied to the output at its relative path.
C8_PackageMarkers ==
    /\ \A i \in 1..Len(extensions) : name(pathOf(extensions[i].source)) # INIT_PY
    /\ pc = "compile" =>
          \A f \in tree :
              (name(f) = INIT_PY /\ classify(AbsPath(f)) = "Compile")
                  => PkgName(parent(f)) \in Range(packages)
    /\ pc = "done" =>
          \A f \in present : (name(f) = INIT_PY /\ ~UnderExcludedDir(f)) => f \in copied

\* a finished run with a compile unit next to the marker of its package
C8_Witness ==
    /\ pc = "done"
    /\ extensions # <<>>
    /\ \E f \in present : name(f) = INIT_PY /\ Len(f) >= 2 /\ f \in copied

\* ------------------------------------------------------------------------
\* C9
\* ------------------------------------------------------------------------
\* number of calls of cythonize per unit, by the state of the unit; a unit
\* whose source was missing at dispatch is Failed with the diagnostic of the
\* missing source and was never handed to cythonize
C9_Counts ==
    /\ Len(calls) <= Len(extensions)
    /\ \A i \in 1..Len(extensions) :
          LET src == extensions[i].source
              st == UnitState(i)
              n == Count(calls, src)
              missing == UnitPath(extensions[i]) \in deleted
          IN  /\ st = "Pending" => n = 0
              /\ st = "Compiling" => n = 1
              /\ st \in {"Succeeded", "Failed"} => n = (IF missing THEN 0 ELSE 1)
              /\ missing => (st = "Failed" /\ failed[src] = MSG_MISSING)
              /\ (st = "Failed" /\ failed[src] = MSG_MISSING) => missing

\* a unit that is Succeeded or Failed stays so and is not called again
C9_NoRedispatch ==
    \A i \in 1..Len(extensions) :
        UnitState(i) \in {"Succeeded", "Failed"} =>
            /\ UnitState(i)' = UnitState(i)
            /\ Count(calls', extensions[i].source) = Count(calls, extensions[i].source)

\* C9: cythonize is called exactly once for each unit whose source exists
\* at dispatch and never for a unit whose source is missing, which is Failed
\* at once with the diagnostic of the missing source; no unit is dispatched
\* again after it is Succeeded or Failed.
C9_InvocationCount == [](C9_Counts) /\ [][C9_NoRedispatch]_vars

\* a finished run with one unit whose source was missing and one compiled
C9_Witness ==
    /\ pc = "done"
    /\ \E i, j \in 1..Len(extensions) :
          /\ UnitPath(extensions[i]) \in deleted
          /\ Count(calls, extensions[i].source) = 0
          /\ UnitPath(extensions[j]) \notin deleted
          /\ Count(calls, extensions[j].source) = 1

\* ------------------------------------------------------------------------
\* C10
\* ------------------------------------------------------------------------
\* the directories between a Compile file and the project root, both ends
\* included, that hold an __init__.py
PackageDirs ==
    { d \in UNION { { SubSeq(f, 1, k) : k \in 0..(Len(f) - 1) } :
                     f \in { g \in tree : classify(AbsPath(g)) = "Compile" } } :
        (d \o <<INIT_PY>>) \in tree }

\* C10: the package list of the scan is strictly increasing in the order of
\* str (sorted, no duplicates) and holds exactly the names of the
\* directories between a Compile file and the root that contain an
\* __init__.py, the root as "."; this for every order of discovery.
C10_PackageResolution ==
    pc = "compile" =>
        /\ \A i \in 1..(Len(packages) - 1) : strLess(packages[i], packages[i + 1])
        /\ Range(packages) = { PkgName(d) : d \in PackageDirs }

\* a scan that found the root package and a package below it
C10_Witness ==
    /\ pc = "compile"
    /\ Len(packages) >= 2
    /\ packages[1] = <<".">>

\* ------------------------------------------------------------------------
\* C11
\* ------------------------------------------------------------------------
\* C11 (as claimed): once copy_excluded_python_files has run, no compile
\* unit the scan selected is among the files it copied as source for a file
\* rule: a file is compiled or preserved by a user file rule, never both.
C11_ClassifierCopierAgree ==
    pc = "copy_failed" =>
        \A i \in 1..Len(extensions) :
            UnitPath(extensions[i])
                \notin copy_excluded_python_files(PROJECT_ROOT, present, exclude_py_list)

\* ------------------------------------------------------------------------
\* C12
\* ------------------------------------------------------------------------
\* the compile units of a scan as (project-relative path, module name) pairs
UnitsOf(exts, root_path) ==
    { [path |-> relative_to(pathOf(exts[i].source), root_path), name |-> exts[i].name] :
        i \in 1..Len(exts) }

\* the compile units collect_extensions_and_packages selects when the tree
\* of the run lives under root_path, with the rules of the run
UnitsAt(root_path) ==
    LET files == { root_path \o f : f \in tree }
        found == { f \in files : fnmatch(name(f), <<"*">> \o DOT_PY) }
        order == CHOOSE q \in Orderings(found) : TRUE
        r     == collect_extensions_and_packages(
                     order, files, root_path, exclude_dirs_set, exclude_py_set)
    IN  UnitsOf(r.extensions, root_path)

\* C12 (as claimed): the compile units the scan selected, as relative paths
\* and module names, are the ones the same tree and the same rules yield
\* under every other root location; selection does not depend on the
\* directories above the project.
C12_LocationIndependence ==
    pc = "compile" =>
        \A loc \in Locations :
            UnitsAt(resolve(loc.arg, loc.cwd)) = UnitsOf(extensions, root_resolved)

====
